---- MODULE Spec2Model ----
(***************************************************************************)
(* Model of the IMD data processing tools.                                 *)
(*                                                                         *)
(*   src/run.py                          main: the driver                  *)
(*   src/ETLTools/IMDProcessingClass.py  ProcessIMDData                    *)
(*   src/ETLTools/LookUpProcessingClass.py ProcessLookupTable              *)
(*                                                                         *)
(* A DataFrame is a record [columns, rows]: columns is the sequence of     *)
(* column labels and rows the sequence of rows, each a sequence of cells   *)
(* as long as columns.  A filename is a sequence of one-character strings, *)
(* so that filename[6] of the code (0-based) is name[7] here (1-based).    *)
(* A Python dict is a sequence of [key, sheets] entries in insertion order *)
(* with distinct keys.                                                     *)
(*                                                                         *)
(* Two specifications: Spec is one run of main (the IMD pipeline); the     *)
(* lookup pipeline, which main never calls, is LookupSpec, a caller that   *)
(* chains the methods of ProcessLookupTable as their docstrings describe.  *)
(***************************************************************************)
EXTENDS Integers, Sequences, FiniteSets, TLC

VARIABLES
    directory,                      \* the files of Raw\IMD Data, in os.listdir order
    pc,                             \* position of main
    stages,                         \* the methods main has called so far, in order
    spreadsheet_dictionary,         \* run.py:14 (its frames are mutated in place by remove_columns)
    updated_spreadsheet_dictionary, \* run.py:15
    eav_spreadsheet_dictionary,     \* run.py:16
    written,                        \* the files of Processed\IMD Data
    error,                          \* the uncaught exception that ended main, or "none"
    lookup_files,                   \* the files of Raw\Lookups
    lpc,                            \* position of the lookup pipeline's caller
    lookup_dictionary,              \* result of read_lookup_data
    lookup_master,                  \* result of create_master (mutated in place by remove_columns)
    bridge_tables,                  \* result of create_bridge_tables
    cleaned_lookup_table,           \* result of ProcessLookupTable.remove_columns
    lookup_written,                 \* the files of Processed\Lookups
    lookup_error                    \* the exception that ended the lookup pipeline, or "none"

imd_vars == <<directory, pc, stages, spreadsheet_dictionary, updated_spreadsheet_dictionary,
              eav_spreadsheet_dictionary, written, error>>

lookup_vars == <<lookup_files, lpc, lookup_dictionary, lookup_master, bridge_tables,
                 cleaned_lookup_table, lookup_written, lookup_error>>

vars == <<imd_vars, lookup_vars>>

\* The value of a Python name that was never assigned.
None == "None"

-----------------------------------------------------------------------------
(* Bounds of the inputs.                                                   *)

\* Most files in the IMD input directory.
MaxFiles == 2

\* Most columns of a data sheet.
MaxCols == 6

\* Most rows of a data sheet.
MaxRows == 2

\* Most rows of a lookup file.
MaxLookupRows == 2

-----------------------------------------------------------------------------
(* Sequence helpers.                                                       *)

\* The elements of s whose index is in keep, in order.
SelectIdx(s, keep) ==
    LET F[i \in 0..Len(s)] ==
            IF i = 0 THEN <<>>
            ELSE IF i \in keep THEN Append(F[i - 1], s[i]) ELSE F[i - 1]
    IN F[Len(s)]

\* Python s[a:b] on a sequence (0-based, b exclusive, clipped to the length).
Slice(s, a, b) ==
    LET hi == IF b < Len(s) THEN b ELSE Len(s)
    IN IF a >= hi THEN <<>> ELSE SubSeq(s, a + 1, hi)

Range(s) == {s[i] : i \in 1..Len(s)}

Min(a, b) == IF a < b THEN a ELSE b

\* The concatenation of the sequences of a sequence.
Flatten(ss) ==
    LET F[i \in 0..Len(ss)] == IF i = 0 THEN <<>> ELSE F[i - 1] \o ss[i]
    IN F[Len(ss)]

\* str.endswith
EndsWith(s, suffix) ==
    /\ Len(s) >= Len(suffix)
    /\ SubSeq(s, Len(s) - Len(suffix) + 1, Len(s)) = suffix

-----------------------------------------------------------------------------
(* The input directory of the IMD pipeline.                                *)

XlsxSuffix == <<".", "x", "l", "s", "x">>

\* "File07_IoD.xlsx": the character at index 6 is '_'.
LsoaFile == <<"F", "i", "l", "e", "0", "7", "_", "I", "o", "D">> \o XlsxSuffix

\* "E01000001_IMD.xlsx": the character at index 6 is '0'.
ScenarioFile == <<"E", "0", "1", "0", "0", "0", "0", "0", "1", "_", "I", "M", "D">> \o XlsxSuffix

\* "ab.xlsx": exactly 7 characters, the character at index 6 is 'x'.
SevenFile == <<"a", "b">> \o XlsxSuffix

\* "a.xlsx": 6 characters, no character at index 6.
ShortFile == <<"a">> \o XlsxSuffix

\* "notes.txt": not a workbook.
TextFile == <<"n", "o", "t", "e", "s", ".", "t", "x", "t">>

FileNames == {LsoaFile, ScenarioFile, SevenFile, ShortFile, TextFile}

\* Column headers of a sheet, by position.  pd.read_excel makes the headers
\* of a sheet distinct (a repeated header h is read as h.1, h.2, ...).
HeaderNames == <<"LSOA code", "LSOA name", "Score", "Rank", "Decile", "Income",
                 "Employment", "Education">>

\* The sheet at position k of a workbook, with n columns and m rows.  A cell
\* tells its sheet, row and column apart from every other.
DataSheet(k, n, m) ==
    [columns |-> [c \in 1..n |-> HeaderNames[c]],
     rows    |-> [r \in 1..m |-> [c \in 1..n |-> 100 * k + 10 * r + c]]]

\* The sheet names of the workbooks drawn.
SheetNameLists ==
    << <<"IMD", "IoD">>,
       <<"Notes", "IMD", "Terms & Conditions">>,
       <<"IMD", "Terms & Conditions", "IoD", "Notes">>,
       <<"Notes">> >>

Workbook(names, n, m) ==
    [k \in 1..Len(names) |-> [name |-> names[k], frame |-> DataSheet(k, n, m)]]

\* The directories drawn: up to MaxFiles files of distinct names; file j holds
\* the workbook whose sheet names are the (w + j)-th list, every sheet n x m.
Directories ==
    { [j \in 1..Len(names) |->
          [name     |-> names[j],
           workbook |-> Workbook(SheetNameLists[((w + j) % Len(SheetNameLists)) + 1], n, m)]] :
      names \in { s \in UNION { [1..l -> FileNames] : l \in 0..MaxFiles } :
                    \A i, j \in 1..Len(s) : i # j => s[i] # s[j] },
      w \in 1..Len(SheetNameLists),
      n \in 0..MaxCols,
      m \in 0..MaxRows }

-----------------------------------------------------------------------------
(* ProcessIMDData.read_imd_data                                            *)

\* df.pop(name, None) on the dict of sheets of a workbook.
PopSheet(df, name) == SelectSeq(df, LAMBDA s : s.name # name)

\* A plausible slip: only the 'Notes' sheet is popped.
LoadSheetList_NotesOnly(workbook) ==
    LET df1 == IF "Notes" \in {workbook[i].name : i \in 1..Len(workbook)}
               THEN PopSheet(workbook, "Notes") ELSE workbook
    IN [i \in 1..Len(df1) |-> df1[i].frame]

\* The sheet_list built for one workbook (lines 60-73).
LoadSheetList(workbook) ==
    LET df1 == IF "Notes" \in {workbook[i].name : i \in 1..Len(workbook)}
               THEN PopSheet(workbook, "Notes") ELSE workbook
        df2 == IF "Terms & Conditions" \in {df1[i].name : i \in 1..Len(df1)}
               THEN PopSheet(df1, "Terms & Conditions") ELSE df1
    IN [i \in 1..Len(df2) |-> df2[i].frame]

\* The dictionary read_imd_data returns for a directory.
read_imd_data(dir) ==
    LET xlsx == SelectSeq(dir, LAMBDA f : EndsWith(f.name, XlsxSuffix))
    IN [i \in 1..Len(xlsx) |-> [key |-> xlsx[i].name, sheets |-> LoadSheetList(xlsx[i].workbook)]]

-----------------------------------------------------------------------------
(* ProcessIMDData.remove_columns                                           *)

\* df.drop(labels, inplace=True, axis=1): every column whose label is one of
\* labels goes; the others keep their order.
DropLabels(df, labels) ==
    LET keep == {i \in 1..Len(df.columns) : df.columns[i] \notin labels}
    IN [columns |-> SelectIdx(df.columns, keep),
        rows    |-> [r \in 1..Len(df.rows) |-> SelectIdx(df.rows[r], keep)]]

\* filename[6] != '_' (line 102); the caller has checked that the index exists.
IsSummaryFile(filename) == filename[7] # "_"

\* filename[6] == '_' (line 108)
IsLsoaFile(filename) == filename[7] = "_"

\* df.columns[1] (line 119); the caller has checked that the index exists.
SummaryDropLabels(df) == {df.columns[2]}

\* A plausible slip: the slice [1:3] instead of [1:4].
LsoaDropLabels_TwoColumns(df) == Range(Slice(df.columns, 1, 3))

\* df.columns[1:4] (line 124): a slice, clipped to the columns there are.
LsoaDropLabels(df) == Range(Slice(df.columns, 1, 4))

\* The loops of lines 118-120 and 123-125 over the sheets of one file, which
\* mutate the frames of sheet_list in place.  df.columns[1] raises IndexError
\* on a frame of fewer than two columns; the frames before it stay mutated.
DropFromSheets(filename, sheet_list) ==
    LET F[i \in 0..Len(sheet_list)] ==
            IF i = 0 THEN [error |-> "none", sheets |-> sheet_list]
            ELSE LET p  == F[i - 1]
                     df == sheet_list[i]
                 IN IF p.error # "none" THEN p
                    ELSE IF IsSummaryFile(filename)
                    THEN IF Len(df.columns) < 2
                         THEN [p EXCEPT !.error = "IndexError"]
                         ELSE [p EXCEPT !.sheets[i] = DropLabels(df, SummaryDropLabels(df))]
                    ELSE [p EXCEPT !.sheets[i] = DropLabels(df, LsoaDropLabels(df))]
    IN F[Len(sheet_list)]

\* The loop of lines 113-127 over the files.
DropFromFiles(dict) ==
    LET G[j \in 0..Len(dict)] ==
            IF j = 0 THEN [error |-> "none", dictionary |-> dict]
            ELSE LET p == G[j - 1]
                     s == DropFromSheets(dict[j].key, dict[j].sheets)
                 IN IF p.error # "none" THEN p
                    ELSE [error      |-> s.error,
                          dictionary |-> [p.dictionary EXCEPT ![j].sheets = s.sheets]]
    IN G[Len(dict)]

\* A plausible slip: filename[6] read inside the loop over the files, so that
\* the files before a short name are stripped before the failure.
remove_columns_CheckInLoop(dict) ==
    LET G[j \in 0..Len(dict)] ==
            IF j = 0 THEN [error |-> "none", dictionary |-> dict]
            ELSE LET p == G[j - 1]
                 IN IF p.error # "none" THEN p
                    ELSE IF Len(dict[j].key) < 7 THEN [p EXCEPT !.error = "IndexError"]
                    ELSE LET s == DropFromSheets(dict[j].key, dict[j].sheets)
                         IN [error      |-> s.error,
                             dictionary |-> [p.dictionary EXCEPT ![j].sheets = s.sheets]]
        g == G[Len(dict)]
    IN [error      |-> g.error,
        dictionary |-> g.dictionary,
        result     |-> IF g.error = "none" THEN g.dictionary ELSE None]

\* remove_columns(spreadsheet_dictionary): error is the exception raised or
\* "none", dictionary the argument as the call leaves it (its frames are shared
\* with the result and mutated in place), result the dictionary returned.
\* The two list comprehensions of lines 99-109 read filename[6] of every key
\* before any frame is touched: a key shorter than 7 raises IndexError there.
remove_columns(dict) ==
    IF \E j \in 1..Len(dict) : Len(dict[j].key) < 7
    THEN [error |-> "IndexError", dictionary |-> dict, result |-> None]
    ELSE LET g == DropFromFiles(dict)
         IN [error      |-> g.error,
             dictionary |-> g.dictionary,
             result     |-> IF g.error = "none" THEN g.dictionary ELSE None]

-----------------------------------------------------------------------------
(* ProcessIMDData.convert_to_eav_format                                    *)

\* The distinct elements of s in the order of their first occurrence
\* (pandas.unique, Series.unique).
Unique(s) == SelectIdx(s, {i \in 1..Len(s) : \A j \in 1..(i - 1) : s[j] # s[i]})

\* pandas.melt(frame, id_vars, value_vars, var_name='attribute',
\* value_name='value') on a frame of distinct labels.  The frame is cut to the
\* columns named in id_vars + value_vars, each once; every id column is popped
\* from it and tiled; what is left is unpivoted column by column.  A column
\* named both in id_vars and in value_vars is popped as an id column and is
\* not unpivoted.
Melt(frame, id_vars, value_vars) ==
    LET pos(label) == CHOOSE i \in 1..Len(frame.columns) : frame.columns[i] = label
        labels     == id_vars \o value_vars
        idx        == Unique([i \in 1..Len(labels) |-> pos(labels[i])])
        rest       == SelectSeq(idx, LAMBDA i : frame.columns[i] \notin Range(id_vars))
        N          == Len(frame.rows)
    IN [columns |-> id_vars \o <<"attribute", "value">>,
        rows    |-> [t \in 1..(N * Len(rest)) |->
                       LET r == ((t - 1) % N) + 1
                           c == rest[((t - 1) \div N) + 1]
                       IN [i \in 1..Len(id_vars) |-> frame.rows[r][pos(id_vars[i])]]
                          \o <<frame.columns[c], frame.rows[r][c]>>]]

\* A plausible variant: the first column alone is the identity column.
IdVars_FirstOnly(sheet) == Slice(sheet.columns, 0, 1)

\* sheet.columns[0:2] (line 156)
IdVars(sheet) == Slice(sheet.columns, 0, 2)

\* sheet.columns[1:] (line 157)
ValueVars(sheet) == Slice(sheet.columns, 1, Len(sheet.columns))

\* Lines 149-166.
convert_to_eav_format(dict) ==
    [j \in 1..Len(dict) |->
        [key    |-> dict[j].key,
         sheets |-> [k \in 1..Len(dict[j].sheets) |->
                        Melt(dict[j].sheets[k], IdVars(dict[j].sheets[k]),
                             ValueVars(dict[j].sheets[k]))]]]

-----------------------------------------------------------------------------
(* ProcessIMDData.write_data                                               *)

\* One pass of the outer loop (line 186) on one value of the dictionary, which
\* is a list of frames: "name, sheet_list = value" raises ValueError unless the
\* list holds exactly two frames; then name is the first frame and sheet_list
\* the second, enumerate(sheet_list) yields the column labels of that frame,
\* and label.to_csv raises AttributeError on the first of them.  No pass
\* writes a file.
WriteValue(value) ==
    IF Len(value) # 2 THEN "ValueError"
    ELSE IF Len(value[2].columns) > 0 THEN "AttributeError"
    ELSE "none"

\* write_data(spreadsheet_dictionary): the exception raised, or "none", and
\* the files written.
write_data(dict) ==
    LET F[j \in 0..Len(dict)] ==
            IF j = 0 THEN "none"
            ELSE IF F[j - 1] # "none" THEN F[j - 1] ELSE WriteValue(dict[j].sheets)
    IN [error |-> F[Len(dict)], files |-> {}]

-----------------------------------------------------------------------------
(* main (run.py)                                                           *)

IdleIMD ==
    /\ directory = <<>>
    /\ pc = "idle"
    /\ stages = <<>>
    /\ spreadsheet_dictionary = None
    /\ updated_spreadsheet_dictionary = None
    /\ eav_spreadsheet_dictionary = None
    /\ written = {}
    /\ error = "none"

\* main never constructs a ProcessLookupTable.
IdleLookup ==
    /\ lookup_files = <<>>
    /\ lpc = "idle"
    /\ lookup_dictionary = None
    /\ lookup_master = None
    /\ bridge_tables = None
    /\ cleaned_lookup_table = None
    /\ lookup_written = {}
    /\ lookup_error = "none"

Init ==
    /\ directory \in Directories
    /\ pc = "read"
    /\ stages = <<>>
    /\ spreadsheet_dictionary = None
    /\ updated_spreadsheet_dictionary = None
    /\ eav_spreadsheet_dictionary = None
    /\ written = {}
    /\ error = "none"
    /\ IdleLookup

\* run.py:14
ReadImdData ==
    /\ pc = "read"
    /\ stages' = Append(stages, "read_imd_data")
    /\ spreadsheet_dictionary' = read_imd_data(directory)
    /\ pc' = "remove"
    /\ UNCHANGED <<directory, updated_spreadsheet_dictionary, eav_spreadsheet_dictionary,
                   written, error, lookup_vars>>

\* run.py:14 when pd.read_excel raises on a workbook it cannot parse: the
\* exception is not caught and ends main.
ReadImdDataFails ==
    /\ pc = "read"
    /\ \E i \in 1..Len(directory) : EndsWith(directory[i].name, XlsxSuffix)
    /\ stages' = Append(stages, "read_imd_data")
    /\ pc' = "failed"
    /\ error' = "ReadError"
    /\ UNCHANGED <<directory, spreadsheet_dictionary, updated_spreadsheet_dictionary,
                   eav_spreadsheet_dictionary, written, lookup_vars>>

\* run.py:15
RemoveColumns ==
    /\ pc = "remove"
    /\ LET r == remove_columns(spreadsheet_dictionary)
       IN /\ stages' = Append(stages, "remove_columns")
          /\ spreadsheet_dictionary' = r.dictionary
          /\ updated_spreadsheet_dictionary' = r.result
          /\ error' = r.error
          /\ pc' = IF r.error = "none" THEN "convert" ELSE "failed"
    /\ UNCHANGED <<directory, eav_spreadsheet_dictionary, written, lookup_vars>>

\* run.py:16
ConvertToEavFormat ==
    /\ pc = "convert"
    /\ stages' = Append(stages, "convert_to_eav_format")
    /\ eav_spreadsheet_dictionary' = convert_to_eav_format(updated_spreadsheet_dictionary)
    /\ pc' = "write"
    /\ UNCHANGED <<directory, spreadsheet_dictionary, updated_spreadsheet_dictionary,
                   written, error, lookup_vars>>

\* run.py:17; main returns after it.
WriteData ==
    /\ pc = "write"
    /\ LET w == write_data(eav_spreadsheet_dictionary)
       IN /\ stages' = Append(stages, "write_data")
          /\ written' = written \cup w.files
          /\ error' = w.error
          /\ pc' = IF w.error = "none" THEN "done" ELSE "failed"
    /\ UNCHANGED <<directory, spreadsheet_dictionary, updated_spreadsheet_dictionary,
                   eav_spreadsheet_dictionary, lookup_vars>>

Next ==
    \/ ReadImdData
    \/ ReadImdDataFails
    \/ RemoveColumns
    \/ ConvertToEavFormat
    \/ WriteData

Spec == Init /\ [][Next]_vars

-----------------------------------------------------------------------------
(* The input directory of the lookup pipeline.                             *)
(*                                                                         *)
(* The repository holds no lookup file.  The layout below is the one the   *)
(* class fields and the docstring of create_master describe: the join keys *)
(* 'LSOA code (2011)' and 'LSOA11CD', and a master table whose columns     *)
(* 2/3, 6/7, 10/11 and 14/16 are the code and the name of the district,    *)
(* the upper-tier district, the LEP and the CCG.  A column label is a      *)
(* sequence of strings: the header, then the suffixes pd.merge added.      *)

DistrictFile == "LSOA_District_lookup.csv"
DistrictUTFile == "LSOA_DistrictUT_lookup.csv"
LEPFile == "LSOA_LEP_lookup.csv"
CCGFile == "LSOA_CCG_lookup.csv"

\* A missing cell.
NaN == "NaN"

LsoaCodes == <<"E01000001", "E01000002">>

LsoaNameOf(code) == IF code = "E01000001" THEN "City of London 001A" ELSE "City of London 001B"

GeoCodes == <<"G1", "G2", "G3", "G4">>

GeoNames == <<"Area 1", "Area 2", "Area 3", "Area 4">>

\* The position of an LSOA code in LsoaCodes.
LsoaOrd(code) == CHOOSE i \in 1..Len(LsoaCodes) : LsoaCodes[i] = code

\* The geography (code, name) of row i of a lookup file whose LSOA is lsoa:
\*   "one-to-one"   every row its own code and its own name;
\*   "shared name"  every row its own code, all rows one name;
\*   "by lsoa"      the code and the name are those of the row's LSOA.
Geography(variant, i, lsoa) ==
    CASE variant = "one-to-one"  -> <<GeoCodes[i], GeoNames[i]>>
      [] variant = "shared name" -> <<GeoCodes[i], GeoNames[1]>>
      [] variant = "by lsoa"     -> <<GeoCodes[LsoaOrd(lsoa)], GeoNames[LsoaOrd(lsoa)]>>

Variants == {"one-to-one", "shared name", "by lsoa"}

\* A lookup file: key and name are the headers of its LSOA columns, extra
\* the headers between the geography code and the geography name, lsoas the
\* LSOA code of each row.
LookupTable(key, name, geo, extra, lsoas, variant) ==
    [columns |-> <<<<key>>, <<name>>, <<geo, "code">>>>
                    \o [e \in 1..Len(extra) |-> <<extra[e]>>]
                    \o <<<<geo, "name">>>>,
     rows    |-> [i \in 1..Len(lsoas) |->
                    <<lsoas[i], LsoaNameOf(lsoas[i]), Geography(variant, i, lsoas[i])[1]>>
                    \o [e \in 1..Len(extra) |-> "x"]
                    \o <<Geography(variant, i, lsoas[i])[2]>>]]

\* The LSOA columns drawn for a file: up to MaxLookupRows LSOA codes.
LsoaSeqs == UNION { [1..l -> Range(LsoaCodes)] : l \in 0..MaxLookupRows }

\* Those in ascending order (the order of the rows of a joined-in file does
\* not change which rows match).
SortedLsoaSeqs ==
    { s \in LsoaSeqs : \A i, j \in 1..Len(s) : i < j => LsoaOrd(s[i]) <= LsoaOrd(s[j]) }

\* The directory with the four lookup files: d, u, l, c are the LSOA columns
\* of the District, DistrictUT, LEP and CCG files; ccg_extra the headers of
\* the CCG file between its code and its name.
LookupDirectory(d, u, l, c, variant, ccg_extra) ==
    (DistrictFile :> LookupTable("LSOA code (2011)", "LSOA name (2011)", "LAD", <<>>, d, variant))
    @@ (DistrictUTFile :> LookupTable("LSOA11CD", "LSOA11NM", "UTLA", <<>>, u, variant))
    @@ (LEPFile :> LookupTable("LSOA11CD", "LSOA11NM", "LEP", <<>>, l, variant))
    @@ (CCGFile :> LookupTable("LSOA11CD", "LSOA11NM", "CCG", ccg_extra, c, variant))

\* f without the key k.
Without(f, k) == [x \in DOMAIN f \ {k} |-> f[x]]

\* The directories drawn: the four files in the layout above with every
\* choice of LSOA columns and one-to-one geographies; with every kind of
\* geography, the same LSOA column in the three joined-in files; and, with
\* the same LSOA column in every file, a CCG file of one column less (a
\* master of 16 columns) and the directory without its CCG file.
LookupDirectories ==
    { LookupDirectory(d, u, l, c, "one-to-one", <<"CCG18CDH">>) :
        d \in SortedLsoaSeqs, u \in SortedLsoaSeqs, l \in SortedLsoaSeqs,
        c \in SortedLsoaSeqs }
    \cup { LookupDirectory(d, r, r, r, v, <<"CCG18CDH">>) :
             d \in LsoaSeqs, r \in SortedLsoaSeqs, v \in Variants }
    \cup { LookupDirectory(d, d, d, d, v, <<>>) : d \in LsoaSeqs, v \in Variants }
    \cup { Without(LookupDirectory(d, d, d, d, v, <<"CCG18CDH">>), CCGFile) :
             d \in LsoaSeqs, v \in Variants }

-----------------------------------------------------------------------------
(* ProcessLookupTable                                                      *)

\* Line 95: every file of the directory, keyed by its name.
read_lookup_data(files) == [file \in DOMAIN files |-> files[file]]

\* The 1-based position of a label in a header of distinct labels.
PositionOf(columns, label) == CHOOSE i \in 1..Len(columns) : columns[i] = label

\* A plausible slip: how='inner', which drops the left rows without a match.
Merge_Inner(left, right, left_on, right_on) ==
    LET both == Range(left.columns) \cap Range(right.columns)
        lk   == PositionOf(left.columns, left_on)
        rk   == PositionOf(right.columns, right_on)
    IN [columns |-> [i \in 1..Len(left.columns) |->
                        IF left.columns[i] \in both
                        THEN Append(left.columns[i], "_x") ELSE left.columns[i]]
                    \o [i \in 1..Len(right.columns) |->
                        IF right.columns[i] \in both
                        THEN Append(right.columns[i], "_y") ELSE right.columns[i]],
        rows    |-> Flatten([i \in 1..Len(left.rows) |->
                        LET hits == SelectSeq(right.rows, LAMBDA rr : rr[rk] = left.rows[i][lk])
                        IN [h \in 1..Len(hits) |-> left.rows[i] \o hits[h]]])]

\* pd.merge(left, right, left_on, right_on, how='left') on frames of distinct
\* labels: a label that both frames have gets the suffix _x on the left and
\* _y on the right; every left row, in order, is paired with each right row
\* of equal key, in the right frame's order, or, when there is none, with a
\* row of missing cells.
Merge(left, right, left_on, right_on) ==
    LET both == Range(left.columns) \cap Range(right.columns)
        lk   == PositionOf(left.columns, left_on)
        rk   == PositionOf(right.columns, right_on)
    IN [columns |-> [i \in 1..Len(left.columns) |->
                        IF left.columns[i] \in both
                        THEN Append(left.columns[i], "_x") ELSE left.columns[i]]
                    \o [i \in 1..Len(right.columns) |->
                        IF right.columns[i] \in both
                        THEN Append(right.columns[i], "_y") ELSE right.columns[i]],
        rows    |-> Flatten([i \in 1..Len(left.rows) |->
                        LET hits == SelectSeq(right.rows, LAMBDA rr : rr[rk] = left.rows[i][lk])
                        IN IF Len(hits) = 0
                           THEN <<left.rows[i] \o [c \in 1..Len(right.columns) |-> NaN]>>
                           ELSE [h \in 1..Len(hits) |-> left.rows[i] \o hits[h]]])]

\* create_master(lookup_dictionary), lines 123-146: the exception raised, or
\* "none", and the table returned.  lookup_dictionary[name] raises KeyError
\* for a file that was not in the directory.
create_master(dict) ==
    IF {DistrictFile, DistrictUTFile, LEPFile, CCGFile} \subseteq DOMAIN dict
    THEN LET df_join_one   == Merge(dict[DistrictFile], dict[DistrictUTFile],
                                    <<"LSOA code (2011)">>, <<"LSOA11CD">>)
             df_join_two   == Merge(df_join_one, dict[LEPFile],
                                    <<"LSOA code (2011)">>, <<"LSOA11CD">>)
             df_join_three == Merge(df_join_two, dict[CCGFile],
                                    <<"LSOA code (2011)">>, <<"LSOA11CD">>)
         IN [error |-> "none", master |-> df_join_three]
    ELSE [error |-> "KeyError", master |-> None]

\* bridge_table_index_dictionary (lines 43-48): the keys, and under each the
\* 0-based positions of the code column and of the name column.
BridgeNames == <<"lad_bridge", "lad_ut_bridge", "lep_bridge", "ccg_bridge">>

BridgeTableIndex == << <<2, 3>>, <<6, 7>>, <<10, 11>>, <<14, 16>> >>

\* remove_columns_index (lines 49-61), 0-based.
RemoveColumnsIndex == <<3, 4, 5, 7, 8, 9, 11, 12, 13, 15, 16>>

\* frame[labels]: the columns of those labels, in the order of labels.
SelectLabels(frame, labels) ==
    [columns |-> labels,
     rows    |-> [r \in 1..Len(frame.rows) |->
                    [i \in 1..Len(labels) |-> frame.rows[r][PositionOf(frame.columns, labels[i])]]]]

\* The cells of the column at 1-based position p, top to bottom.
Column(frame, p) == [r \in 1..Len(frame.rows) |-> frame.rows[r][p]]

\* create_bridge_tables(lookup_table), lines 168-184: the exception raised,
\* or "none", and the list returned.  lookup_table.columns[[i, j]] raises
\* IndexError when the table has no column j; pd.DataFrame raises ValueError
\* when the two arrays it is given differ in length.
create_bridge_tables(lookup_table) ==
    IF \E b \in 1..Len(BridgeTableIndex) : \E q \in 1..2 :
          BridgeTableIndex[b][q] >= Len(lookup_table.columns)
    THEN [error |-> "IndexError", tables |-> None]
    ELSE LET bridge_table_list ==
                 [b \in 1..Len(BridgeTableIndex) |->
                     SelectLabels(lookup_table,
                                  [q \in 1..2 |-> lookup_table.columns[BridgeTableIndex[b][q] + 1]])]
             code(b) == Unique(Column(bridge_table_list[b], 1))
             name(b) == Unique(Column(bridge_table_list[b], 2))
         IN IF \E b \in 1..Len(bridge_table_list) : Len(code(b)) # Len(name(b))
            THEN [error |-> "ValueError", tables |-> None]
            ELSE [error  |-> "none",
                  tables |-> [b \in 1..Len(bridge_table_list) |->
                                 [columns |-> <<"code", "name">>,
                                  rows    |-> [r \in 1..Len(code(b)) |-> <<code(b)[r], name(b)[r]>>]]]]

\* A plausible slip: the configured positions taken as 1-based.
ColumnsList_OneBased(lookup_table) ==
    [i \in 1..Len(RemoveColumnsIndex) |-> lookup_table.columns[RemoveColumnsIndex[i]]]

\* columns_list (line 206): the labels at the configured positions of the
\* table as it is before anything is dropped.
ColumnsList(lookup_table) ==
    [i \in 1..Len(RemoveColumnsIndex) |-> lookup_table.columns[RemoveColumnsIndex[i] + 1]]

\* ProcessLookupTable.remove_columns(lookup_table), lines 206-213: the
\* exception raised, or "none", and the table, which is dropped from in place
\* and returned.  lookup_table.columns[i] raises IndexError when the table
\* has no column i.
lookup_remove_columns(lookup_table) ==
    IF \E i \in 1..Len(RemoveColumnsIndex) : RemoveColumnsIndex[i] >= Len(lookup_table.columns)
    THEN [error |-> "IndexError", table |-> lookup_table]
    ELSE [error |-> "none", table |-> DropLabels(lookup_table, Range(ColumnsList(lookup_table)))]

\* write_lookups(master_lookup, bridge_tables), lines 231-235: the files
\* written, each without header row and without index column.
write_lookups(master_lookup, tables) ==
    {[file |-> "MasterLookUp.csv", header |-> FALSE, index |-> FALSE, rows |-> master_lookup.rows]}
    \cup {[file |-> BridgeNames[b], header |-> FALSE, index |-> FALSE, rows |-> tables[b].rows] :
            b \in 1..Min(Len(tables), Len(BridgeNames))}

-----------------------------------------------------------------------------
(* A caller of the lookup pipeline: read_lookup_data, create_master,       *)
(* create_bridge_tables on the master before its columns are removed,      *)
(* remove_columns, write_lookups.  An exception ends the run.              *)

LookupInit ==
    /\ IdleIMD
    /\ lookup_files \in LookupDirectories
    /\ lpc = "read"
    /\ lookup_dictionary = None
    /\ lookup_master = None
    /\ bridge_tables = None
    /\ cleaned_lookup_table = None
    /\ lookup_written = {}
    /\ lookup_error = "none"

ReadLookupData ==
    /\ lpc = "read"
    /\ lookup_dictionary' = read_lookup_data(lookup_files)
    /\ lpc' = "master"
    /\ UNCHANGED <<lookup_files, lookup_master, bridge_tables, cleaned_lookup_table,
                   lookup_written, lookup_error, imd_vars>>

CreateMaster ==
    /\ lpc = "master"
    /\ LET m == create_master(lookup_dictionary)
       IN /\ lookup_master' = m.master
          /\ lookup_error' = m.error
          /\ lpc' = IF m.error = "none" THEN "bridge" ELSE "failed"
    /\ UNCHANGED <<lookup_files, lookup_dictionary, bridge_tables, cleaned_lookup_table,
                   lookup_written, imd_vars>>

CreateBridgeTables ==
    /\ lpc = "bridge"
    /\ LET b == create_bridge_tables(lookup_master)
       IN /\ bridge_tables' = b.tables
          /\ lookup_error' = b.error
          /\ lpc' = IF b.error = "none" THEN "remove" ELSE "failed"
    /\ UNCHANGED <<lookup_files, lookup_dictionary, lookup_master, cleaned_lookup_table,
                   lookup_written, imd_vars>>

LookupRemoveColumns ==
    /\ lpc = "remove"
    /\ LET r == lookup_remove_columns(lookup_master)
       IN /\ lookup_master' = r.table
          /\ cleaned_lookup_table' = IF r.error = "none" THEN r.table ELSE None
          /\ lookup_error' = r.error
          /\ lpc' = IF r.error = "none" THEN "write" ELSE "failed"
    /\ UNCHANGED <<lookup_files, lookup_dictionary, bridge_tables, lookup_written, imd_vars>>

WriteLookups ==
    /\ lpc = "write"
    /\ lookup_written' = lookup_written \cup write_lookups(cleaned_lookup_table, bridge_tables)
    /\ lpc' = "done"
    /\ UNCHANGED <<lookup_files, lookup_dictionary, lookup_master, bridge_tables,
                   cleaned_lookup_table, lookup_error, imd_vars>>

LookupNext ==
    \/ ReadLookupData
    \/ CreateMaster
    \/ CreateBridgeTables
    \/ LookupRemoveColumns
    \/ WriteLookups

LookupSpec == LookupInit /\ [][LookupNext]_vars

-----------------------------------------------------------------------------
(* Properties of the IMD pipeline, checked under Spec.                     *)

\* The dictionary as read_imd_data returned it, before remove_columns
\* mutated its frames.
Loaded == read_imd_data(directory)

RemoveCalled == Len(stages) >= 2

RemoveReturned == pc = "convert" \/ Len(stages) >= 3

ConvertReturned == Len(stages) >= 3

WriteCalled == Len(stages) >= 4

\* s without its elements at the 1-based positions 2 .. p - 1.
FirstAndFrom(s, p) == IF Len(s) = 0 THEN s ELSE <<s[1]>> \o SubSeq(s, p, Len(s))

\* df with the columns at the 1-based positions 2 .. p - 1 taken out of the
\* header and of every row.
FrameFirstAndFrom(df, p) ==
    [columns |-> FirstAndFrom(df.columns, p),
     rows    |-> [r \in 1..Len(df.rows) |-> FirstAndFrom(df.rows[r], p)]]

\* C1 as stated: once remove_columns has returned, every sheet of a file
\* whose character at index 6 is not '_' has lost exactly its column at
\* position 1, and every sheet of a file whose character at index 6 is '_'
\* has lost exactly three columns, those at positions 1 to 3; the other
\* columns are kept in order.
C1_ExactlyOneOrThreeRemoved ==
    RemoveReturned =>
        \A j \in 1..Len(Loaded) : \A k \in 1..Len(Loaded[j].sheets) :
            LET old == Loaded[j].sheets[k]
                new == updated_spreadsheet_dictionary[j].sheets[k]
            IN IF Loaded[j].key[7] # "_"
               THEN /\ Len(new.columns) = Len(old.columns) - 1
                    /\ new = FrameFirstAndFrom(old, 3)
               ELSE /\ Len(new.columns) = Len(old.columns) - 3
                    /\ new = FrameFirstAndFrom(old, 5)

\* C1 as amended: once remove_columns has returned, the result has the keys
\* of its argument and as many sheets under each; every sheet of a file whose
\* character at index 6 is not '_' had at least two columns and has lost
\* exactly the one at position 1; every sheet of a file whose character at
\* index 6 is '_' has lost the columns it had at positions 1 to 3: three of
\* them if it had at least four columns, all but the first otherwise.  The
\* other columns are kept in order, in the header and in every row.
C1_ColumnsRemovedAsFarAsPresent ==
    RemoveReturned =>
        /\ Len(updated_spreadsheet_dictionary) = Len(Loaded)
        /\ \A j \in 1..Len(Loaded) :
            /\ updated_spreadsheet_dictionary[j].key = Loaded[j].key
            /\ Len(updated_spreadsheet_dictionary[j].sheets) = Len(Loaded[j].sheets)
            /\ \A k \in 1..Len(Loaded[j].sheets) :
                LET old == Loaded[j].sheets[k]
                    new == updated_spreadsheet_dictionary[j].sheets[k]
                    n   == Len(old.columns)
                IN IF Loaded[j].key[7] # "_"
                   THEN /\ n >= 2
                        /\ Len(new.columns) = n - 1
                        /\ new = FrameFirstAndFrom(old, 3)
                   ELSE /\ Len(new.columns) = n - (IF n >= 4 THEN 3 ELSE IF n = 0 THEN 0 ELSE n - 1)
                        /\ new = FrameFirstAndFrom(old, 5)

\* remove_columns has returned a collection that holds a sheet of a summary
\* file and a sheet of at least five columns of an LSOA file, both with rows.
C1_Witness ==
    /\ RemoveReturned
    /\ \E j \in 1..Len(Loaded) : \E k \in 1..Len(Loaded[j].sheets) :
          /\ Loaded[j].key[7] = "_"
          /\ Len(Loaded[j].sheets[k].columns) >= 5
          /\ Len(Loaded[j].sheets[k].rows) >= 1
          /\ Len(updated_spreadsheet_dictionary[j].sheets[k].columns)
                = Len(Loaded[j].sheets[k].columns) - 3
    /\ \E j \in 1..Len(Loaded) : \E k \in 1..Len(Loaded[j].sheets) :
          /\ Loaded[j].key[7] # "_"
          /\ Len(Loaded[j].sheets[k].rows) >= 1
          /\ Len(updated_spreadsheet_dictionary[j].sheets[k].columns)
                = Len(Loaded[j].sheets[k].columns) - 1

\* C2 as stated: once convert_to_eav_format has returned, every output sheet
\* has (rows of the stripped sheet) x (columns of the stripped sheet from
\* position 1 onward) rows, and for every row of the stripped sheet and
\* every column from position 1 onward there is an output row that carries
\* the row's values of the first two columns, the column's header as
\* attribute and the row's cell in that column as value.
C2_MeltsFromPositionOne ==
    ConvertReturned =>
        \A j \in 1..Len(updated_spreadsheet_dictionary) :
        \A k \in 1..Len(updated_spreadsheet_dictionary[j].sheets) :
            LET sheet  == updated_spreadsheet_dictionary[j].sheets[k]
                out    == eav_spreadsheet_dictionary[j].sheets[k]
                n      == Len(sheet.columns)
                melted == 2..n
                ids    == 1..Min(2, n)
            IN /\ Len(out.rows) = Len(sheet.rows) * Cardinality(melted)
               /\ \A r \in 1..Len(sheet.rows) : \A c \in melted :
                     \E t \in 1..Len(out.rows) :
                         out.rows[t] = [i \in ids |-> sheet.rows[r][i]]
                                          \o <<sheet.columns[c], sheet.rows[r][c]>>

\* C5 as stated: once write_data has been called, the output directory holds
\* exactly one file per (filename, sheet position i), named by i and the
\* filename and holding the rows of that sheet, and no other file.
C5_OneFilePerSheet ==
    WriteCalled =>
        written = UNION { { [index    |-> k - 1,
                             filename |-> eav_spreadsheet_dictionary[j].key,
                             rows     |-> eav_spreadsheet_dictionary[j].sheets[k].rows] :
                            k \in 1..Len(eav_spreadsheet_dictionary[j].sheets) } :
                          j \in 1..Len(eav_spreadsheet_dictionary) }

\* The sheets of a workbook that are data sheets, by position.
DataPositions(workbook) ==
    {k \in 1..Len(workbook) : workbook[k].name # "Notes" /\ workbook[k].name # "Terms & Conditions"}

\* The last five characters of the name are ".xlsx".
IsXlsxName(name) ==
    /\ Len(name) >= 5
    /\ name[Len(name) - 4] = "."
    /\ name[Len(name) - 3] = "x"
    /\ name[Len(name) - 2] = "l"
    /\ name[Len(name) - 1] = "s"
    /\ name[Len(name)] = "x"

\* C6: when read_imd_data has returned, the dictionary has exactly one key
\* per '.xlsx' file of the directory and none for any other file, and the
\* list under a key holds, in workbook order, exactly the sheets of that
\* workbook not named 'Notes' or 'Terms & Conditions' (all of them when the
\* workbook has neither).
C6_LoadedSheetsExcludeNonData ==
    pc = "remove" =>
        /\ \A j \in 1..Len(spreadsheet_dictionary) :
              \E i \in 1..Len(directory) :
                 /\ IsXlsxName(directory[i].name)
                 /\ directory[i].name = spreadsheet_dictionary[j].key
        /\ Len(spreadsheet_dictionary)
              = Cardinality({i \in 1..Len(directory) : IsXlsxName(directory[i].name)})
        /\ \A i \in 1..Len(directory) :
              IsXlsxName(directory[i].name) =>
                 \E j \in 1..Len(spreadsheet_dictionary) :
                    LET data == DataPositions(directory[i].workbook)
                        list == spreadsheet_dictionary[j].sheets
                    IN /\ spreadsheet_dictionary[j].key = directory[i].name
                       /\ Len(list) = Cardinality(data)
                       /\ \A k \in data :
                             list[Cardinality({q \in data : q <= k})]
                                = directory[i].workbook[k].frame

\* read_imd_data has returned for a directory that holds a workbook with a
\* 'Terms & Conditions' sheet between two data sheets and a 'Notes' sheet,
\* and another file that is either no workbook or a workbook with neither.
C6_Witness ==
    /\ pc = "remove"
    /\ Len(directory) = 2
    /\ \E i \in 1..Len(directory) :
          /\ IsXlsxName(directory[i].name)
          /\ Len(directory[i].workbook) = 4
          /\ Cardinality(DataPositions(directory[i].workbook)) = 2
          /\ \E j \in 1..Len(spreadsheet_dictionary) :
                /\ spreadsheet_dictionary[j].key = directory[i].name
                /\ Len(spreadsheet_dictionary[j].sheets) = 2
    /\ \E i \in 1..Len(directory) :
          \/ ~IsXlsxName(directory[i].name)
          \/ /\ Len(directory[i].workbook) = 2
             /\ Cardinality(DataPositions(directory[i].workbook)) = 2

\* The end-to-end scenario: the directory holds the one workbook
\* 'E01000001_IMD.xlsx', it has two data sheets, and each has the columns
\* LSOA code, LSOA name, Score.
Scenario ==
    /\ Len(directory) = 1
    /\ directory[1].name = ScenarioFile
    /\ Len(Loaded) = 1
    /\ Len(Loaded[1].sheets) = 2
    /\ \A k \in 1..2 : Loaded[1].sheets[k].columns = <<"LSOA code", "LSOA name", "Score">>

StageOrder == <<"read_imd_data", "remove_columns", "convert_to_eav_format", "write_data">>

\* C8 as stated: main calls the four stages at most once each and in order,
\* calls nothing of the lookup pipeline, stops at the first stage that fails,
\* ends in normal completion exactly when all four stages have succeeded, and
\* does so for every valid non-empty input: when the first three stages have
\* succeeded on a collection that is not empty, write_data succeeds too.
C8_DriverRun ==
    /\ Len(stages) <= 4
    /\ stages = SubSeq(StageOrder, 1, Len(stages))
    /\ lpc = "idle"
    /\ (pc = "failed") = (error # "none")
    /\ (pc = "done") => (Len(stages) = 4 /\ error = "none")
    /\ (Len(stages) = 4 /\ error = "none") => pc = "done"
    /\ (WriteCalled /\ Len(eav_spreadsheet_dictionary) > 0) => pc = "done"

\* C9: when remove_columns has been called on a collection one of whose
\* filenames is shorter than 7 characters, it has failed with an indexing
\* failure, has returned no collection, and every sheet of every file is as
\* it was loaded.
C9_ShortNameFailsBeforeAnyDrop ==
    (RemoveCalled /\ \E j \in 1..Len(Loaded) : Len(Loaded[j].key) < 7) =>
        /\ pc = "failed"
        /\ error = "IndexError"
        /\ stages = <<"read_imd_data", "remove_columns">>
        /\ updated_spreadsheet_dictionary = None
        /\ spreadsheet_dictionary = Loaded

\* remove_columns has failed on a collection whose second filename is short
\* and whose first is a valid name with a sheet that the strip would change.
C9_Witness ==
    /\ RemoveCalled
    /\ pc = "failed"
    /\ Len(Loaded) = 2
    /\ Len(Loaded[1].key) >= 7
    /\ Len(Loaded[2].key) < 7
    /\ \E k \in 1..Len(Loaded[1].sheets) :
          /\ Len(Loaded[1].sheets[k].columns) >= 2
          /\ Len(Loaded[1].sheets[k].rows) >= 1

-----------------------------------------------------------------------------
(* Properties of the lookup pipeline, checked under LookupSpec.            *)

\* create_master has just returned a table.
MasterReturned == lpc = "bridge"

\* create_bridge_tables has been called: it returned, or it raised.
BridgeCalled ==
    \/ lpc \in {"remove", "write", "done"}
    \/ lpc = "failed" /\ lookup_error \in {"IndexError", "ValueError"}

BridgeReturned == lpc \in {"remove", "write", "done"}

LookupRemoveReturned == lpc \in {"write", "done"}

\* The master table as create_master returned it, before remove_columns
\* dropped columns of it in place.
MasterBefore == create_master(lookup_dictionary).master

\* How many rows of the table hold the LSOA code in their first column.
Occurrences(table, lsoa) == Cardinality({r \in 1..Len(table.rows) : table.rows[r][1] = lsoa})

Max(a, b) == IF a > b THEN a ELSE b

\* The master rows that the District row of that LSOA code gives: one for
\* each choice of a matching row in each joined-in file, a file without a
\* match counting as one choice.
RowsFor(lsoa) ==
    Max(1, Occurrences(lookup_dictionary[DistrictUTFile], lsoa))
    * Max(1, Occurrences(lookup_dictionary[LEPFile], lsoa))
    * Max(1, Occurrences(lookup_dictionary[CCGFile], lsoa))

\* The sum of RowsFor over the rows of the District file.
ExpectedMasterRows ==
    LET district == lookup_dictionary[DistrictFile].rows
        S[i \in 0..Len(district)] == IF i = 0 THEN 0 ELSE S[i - 1] + RowsFor(district[i][1])
    IN S[Len(district)]

\* C3 as stated: the master table has exactly as many rows as the District
\* lookup table.
C3_MasterRowsEqualDistrictRows ==
    MasterReturned =>
        Len(lookup_master.rows) = Len(lookup_dictionary[DistrictFile].rows)

\* C3 as amended: the master table has, for every row of the District lookup
\* table, one row per combination of rows of the three joined-in tables that
\* carry its LSOA code (a table that carries none counting once, with
\* missing cells); so it has at least as many rows as the District table,
\* and exactly as many when no LSOA code of a District row occurs more than
\* once in a joined-in table, whether or not it occurs there at all.
C3_MasterRowsPerMatchCombination ==
    MasterReturned =>
        LET district == lookup_dictionary[DistrictFile]
        IN /\ Len(lookup_master.rows) = ExpectedMasterRows
           /\ Len(lookup_master.rows) >= Len(district.rows)
           /\ (\A r \in 1..Len(district.rows) :
                 \A f \in {DistrictUTFile, LEPFile, CCGFile} :
                    Occurrences(lookup_dictionary[f], district.rows[r][1]) <= 1)
                 => Len(lookup_master.rows) = Len(district.rows)

\* create_master has returned for a District table one of whose rows has no
\* match in one joined-in table, two in another and one in the third.
C3_Witness ==
    /\ lpc = "bridge"
    /\ \E r \in 1..Len(lookup_dictionary[DistrictFile].rows) :
          LET lsoa == lookup_dictionary[DistrictFile].rows[r][1]
          IN /\ Occurrences(lookup_dictionary[DistrictUTFile], lsoa) = 0
             /\ Occurrences(lookup_dictionary[LEPFile], lsoa) = 2
             /\ Occurrences(lookup_dictionary[CCGFile], lsoa) = 1
    /\ Len(lookup_master.rows) > Len(lookup_dictionary[DistrictFile].rows)

\* The values of s are pairwise distinct.
NoRepeat(s) == \A i, j \in 1..Len(s) : i # j => s[i] # s[j]

\* C4 as stated: for every master table (of the 17 columns the configured
\* positions need) create_bridge_tables yields, for every configured bridge,
\* a table with the columns code and name in which no code repeats and no
\* name repeats, whose codes are the distinct values of the master's code
\* column in the order of their first occurrence, whose names are those of
\* the name column, and whose row count is the larger of the two counts.
C4_BridgeTablesDeduplicated ==
    (BridgeCalled /\ Len(MasterBefore.columns) >= 17) =>
        /\ BridgeReturned
        /\ Len(bridge_tables) = Len(BridgeTableIndex)
        /\ \A b \in 1..Len(BridgeTableIndex) :
              LET codes == Unique(Column(MasterBefore, BridgeTableIndex[b][1] + 1))
                  names == Unique(Column(MasterBefore, BridgeTableIndex[b][2] + 1))
                  table == bridge_tables[b]
              IN /\ table.columns = <<"code", "name">>
                 /\ Len(table.rows) = Max(Len(codes), Len(names))
                 /\ NoRepeat(codes) /\ NoRepeat(names)
                 /\ \A r \in 1..Len(codes) : table.rows[r][1] = codes[r]
                 /\ \A r \in 1..Len(names) : table.rows[r][2] = names[r]

\* C10: when remove_columns has returned for the master table that the
\* bridge tables were built from, every bridge's code column is still in the
\* table and its name column is not; the table is the master without the
\* columns at the 11 configured positions of the master as it was, the
\* others in order; the table returned is the table that was dropped from;
\* and the bridge tables are those built from the master as it was.
C10_StripKeepsCodesDropsNames ==
    LookupRemoveReturned =>
        LET before == MasterBefore
            after  == cleaned_lookup_table
            kept   == {p \in 1..Len(before.columns) :
                         \A i \in 1..Len(RemoveColumnsIndex) : RemoveColumnsIndex[i] # p - 1}
        IN /\ \A b \in 1..Len(BridgeTableIndex) :
                 /\ BridgeTableIndex[b][1] + 1 \in kept
                 /\ before.columns[BridgeTableIndex[b][1] + 1] \in Range(after.columns)
                 /\ BridgeTableIndex[b][2] + 1 \notin kept
                 /\ before.columns[BridgeTableIndex[b][2] + 1] \notin Range(after.columns)
           /\ Len(after.columns) = Len(before.columns) - 11
           /\ Cardinality(kept) = Len(after.columns)
           /\ \A p \in kept :
                 LET q == Cardinality({x \in kept : x <= p})
                 IN /\ after.columns[q] = before.columns[p]
                    /\ \A r \in 1..Len(before.rows) : after.rows[r][q] = before.rows[r][p]
           /\ Len(after.rows) = Len(before.rows)
           /\ lookup_master = cleaned_lookup_table
           /\ bridge_tables = create_bridge_tables(before).tables

\* remove_columns has returned for a master table of at least two rows whose
\* bridge tables hold rows.
C10_Witness ==
    /\ LookupRemoveReturned
    /\ Len(MasterBefore.columns) >= 17
    /\ Len(cleaned_lookup_table.rows) >= 2
    /\ \A b \in 1..Len(bridge_tables) : Len(bridge_tables[b].rows) >= 2

====
